---- MODULE Spec2Model ----
(***************************************************************************)
(* Telnyx <-> OpenAI Realtime voice bridge.                                *)
(*                                                                         *)
(* The repository holds several revisions of the same server.  Each one is *)
(* a complete program; the model carries all of them and the variable      *)
(* `variant` says which one is running:                                    *)
(*   server_a    src/server.js            lines   1-323                    *)
(*   server_b    src/server.js            lines 325-511                    *)
(*   part_000    src/unnamed/part_000                                      *)
(*   part_001    src/unnamed/part_001                                      *)
(*   part_002    src/unnamed/part_002                                      *)
(*   part_003_a  src/unnamed/part_003     lines   1-251                    *)
(*   part_003_b  src/unnamed/part_003     lines 253-421                    *)
(*                                                                         *)
(* Sockets follow the `ws` library as the programs use it: a client socket *)
(* starts CONNECTING, send() on a CONNECTING socket throws, send() on a    *)
(* CLOSING/CLOSED socket is dropped without an exception, close() on a     *)
(* CONNECTING socket aborts the handshake (the socket never opens), and an *)
(* 'error' event without a listener, like any exception escaping a         *)
(* listener, ends the Node process.                                        *)
(***************************************************************************)
EXTENDS Integers, Sequences, FiniteSets, TLC

\* ---------------------------------------------------------------- bounds
MaxSessions == 2
MaxStreamId == 2
MaxPayload  == 2
MaxEvents   == 4
MaxCallId   == 2
MaxHooks    == 3
MaxCalls    == 2
MaxSteps    == 3

Sessions  == 1..MaxSessions
StreamIds == 1..MaxStreamId
Payloads  == 1..MaxPayload
CallIds   == 1..MaxCallId

Variants == {"server_a", "server_b", "part_000", "part_001", "part_002",
             "part_003_a", "part_003_b"}

\* ------------------------------------------------------------ JSON values
\* A JSON field that is absent, a string, or an object holding the string
\* under the key `audio`; NoMedia is a frame without a `media` object.
None    == [t |-> "none", v |-> 0]
NoMedia == [t |-> "nomedia", v |-> 0]
Str(v)  == [t |-> "str", v |-> v]
Obj(v)  == [t |-> "obj", v |-> v]

Frame(k, sid, p) == [k |-> k, sid |-> sid, p |-> p]
NoFrame == Frame("", 0, None)

\* Frames the telephony side can deliver.  "bad" is a frame JSON.parse
\* rejects; a start frame may lack its stream_id (sid = 0).
TelnyxFrames ==
    {Frame("bad", 0, None), Frame("stop", 0, None), Frame("other", 0, None)}
    \cup {Frame("start", i, None) : i \in 0..MaxStreamId}
    \cup {Frame("media", 0, p) : p \in {Str(v) : v \in Payloads} \cup {None, NoMedia}}

\* Frames the voice model can deliver.  An audio delta carries its chunk in
\* `delta` (a string) or in `delta.audio`, or lacks it.
OpenaiFrames ==
    {Frame("bad", 0, None), Frame("other", 0, None)}
    \cup {Frame("delta", 0, p) :
            p \in {Str(v) : v \in Payloads} \cup {Obj(v) : v \in Payloads} \cup {None}}

\* Messages the bridge writes to a socket.
Msg(type, sid, p) == [type |-> type, sid |-> sid, p |-> p, k |-> ""]
Raw(f) == [type |-> "raw", sid |-> f.sid, p |-> f.p, k |-> f.k]

VARIABLES
    variant,      \* which revision of the server runs
    alive,        \* the Node process has not died of an uncaught exception
    telnyxWs,     \* per session: state of the telephony media socket
    openaiWs,     \* per session: state of the voice-model socket it created
    streamId,     \* per session: recorded stream identifier, 0 = null
    openaiReady,  \* per session: readiness flag (server_a only)
    openaiWS,     \* part_002: the module-level voice-model socket, 0 = null
    toOpenai,     \* per voice-model socket: messages accepted for send
    toTelnyx,     \* per telephony socket: messages accepted for send
    ev,           \* the event handled last
    nevents,      \* connections accepted plus frames delivered so far
    activations,  \* per call identifier: streaming-activation requests issued
    answered,     \* per call identifier: "answered" notifications received
    hookResp,     \* response to the last webhook notification
    wev,          \* the webhook notification handled last
    nhooks,       \* webhook notifications handled so far
    env,          \* the required credentials and the domain are all set
    created,      \* per call identifier: the provider created the call for /call
    streamCfg,    \* per call identifier: created with a stream_url in the request
    creations,    \* call-creation requests issued so far
    callResp,     \* response to the last GET /call
    cev,          \* the GET /call request handled last
    ncalls,       \* GET /call requests handled so far
    triedOpenai   \* voice-model socket the last listener call called send() on, 0 = none

\* --------------------------------------------------------- ws socket model
\* Socket states: "none" (not created), "connecting", "open", "closing"
\* (close() called on an open socket), "aborted" (close() called while
\* connecting), "errored" ('error' emitted, 'close' pending), "closed".
SocketStates == {"none", "connecting", "open", "closing", "aborted", "errored", "closed"}

\* ws.readyState
readyState(st) ==
    CASE st = "connecting" -> "CONNECTING"
      [] st = "open" -> "OPEN"
      [] st \in {"closing", "aborted", "errored"} -> "CLOSING"
      [] OTHER -> "CLOSED"

\* ws.close()
close(st) ==
    CASE st = "connecting" -> "aborted"
      [] st = "open" -> "closing"
      [] OTHER -> st

\* ws.send(): "throw" on a CONNECTING socket, "sent" on an OPEN one,
\* "dropped" otherwise.
send(st) ==
    CASE st = "connecting" -> "throw"
      [] st = "open" -> "sent"
      [] OTHER -> "dropped"

\* ------------------------------------------------------- handler results
\* What one listener call leaves behind for session s: the two socket
\* states, the session's streamId and readiness flag, the messages accepted
\* for send (outO on voice-model socket oc, outT on the session's telephony
\* socket), the voice-model socket send() was called on, accepted or not
\* (tried, 0 = none), and whether an exception escaped ("yes"), or a promise
\* was rejected with nobody handling it ("rejection").
Keep(s, tw, ow) ==
    [tw |-> tw, ow |-> ow, sid |-> streamId[s], ready |-> openaiReady[s],
     oc |-> s, outO |-> <<>>, outT |-> <<>>, tried |-> 0, threw |-> "no"]

\* State of voice-model socket c as the listener of session s sees it.
OpenaiState(c, s, ow) == IF c = s THEN ow ELSE openaiWs[c]

\* socket.send(msgs...) with no try/catch around it.
SendOpenai(R, c, st, msgs) ==
    CASE send(st) = "throw" -> [R EXCEPT !.tried = c, !.threw = "yes"]
      [] send(st) = "sent" -> [R EXCEPT !.tried = c, !.oc = c, !.outO = @ \o msgs]
      [] OTHER -> [R EXCEPT !.tried = c]

\* A send that writes each message twice.
SendTelnyx_twice(R, st, msgs) ==
    CASE send(st) = "throw" -> [R EXCEPT !.threw = "yes"]
      [] send(st) = "sent" -> [R EXCEPT !.outT = @ \o msgs \o msgs]
      [] OTHER -> R

SendTelnyx(R, st, msgs) ==
    CASE send(st) = "throw" -> [R EXCEPT !.threw = "yes"]
      [] send(st) = "sent" -> [R EXCEPT !.outT = @ \o msgs]
      [] OTHER -> R

\* try { socket.send(msg) } catch (err) { console.error(...) }
TrySendOpenai(R, c, st, msgs) ==
    IF send(st) = "sent" THEN [R EXCEPT !.tried = c, !.oc = c, !.outO = @ \o msgs]
    ELSE [R EXCEPT !.tried = c]

TrySendTelnyx(R, st, msgs) ==
    IF send(st) = "sent" THEN [R EXCEPT !.outT = @ \o msgs] ELSE R

\* ------------------------------------------------- messages on the wire
sessionUpdate  == Msg("session.update", 0, None)
itemCreate     == Msg("conversation.item.create", 0, None)
responseCreate == Msg("response.create", 0, None)
commit         == Msg("input_audio_buffer.commit", 0, None)
append(p)      == Msg("input_audio_buffer.append", 0, p)
\* A telephony media frame; sid = 0 is a frame without a stream_id field.
media(sid, p)  == Msg("media", sid, p)

IsServerB == variant \in {"server_b", "part_003_a", "part_003_b"}

\* ======================================================== server_a (A)
\* An open listener that marks the session ready and sends nothing.
connectOpenAI_open_unsent(s, tw, ow) == [Keep(s, tw, ow) EXCEPT !.ready = TRUE]

\* openaiWs.on("open")
connectOpenAI_open(s, tw, ow) ==
    SendOpenai([Keep(s, tw, ow) EXCEPT !.ready = TRUE], s, ow, <<sessionUpdate>>)

\* openaiWs.on("message")
connectOpenAI_message(s, f, tw, ow) ==
    CASE f.k = "bad" -> Keep(s, tw, ow)
      [] f.k = "delta" ->
            IF streamId[s] = 0 THEN Keep(s, tw, ow)
            ELSE TrySendTelnyx(Keep(s, tw, ow), tw, <<media(streamId[s], f.p)>>)
      [] OTHER -> Keep(s, tw, ow)

\* A close listener that calls connectOpenAI again.
connectOpenAI_close_reconnect(s, tw, ow) ==
    [Keep(s, tw, ow) EXCEPT !.ready = FALSE, !.ow = "connecting"]

\* openaiWs.on("close") and openaiWs.on("error")
connectOpenAI_close(s, tw, ow) == [Keep(s, tw, ow) EXCEPT !.ready = FALSE]

\* A message listener that holds audio back until the start frame and emits
\* it then.
handleTelnyxMediaWebSocket_message_flush(s, f, tw, ow) ==
    CASE f.k = "start" ->
            TrySendTelnyx([Keep(s, tw, ow) EXCEPT !.sid = f.sid], tw,
                          <<media(f.sid, Str(1))>>)
      [] OTHER -> Keep(s, tw, ow)

\* telnyxWs.on("message")
handleTelnyxMediaWebSocket_message(s, f, tw, ow) ==
    CASE f.k = "bad" -> Keep(s, tw, ow)
      [] f.k = "start" -> [Keep(s, tw, ow) EXCEPT !.sid = f.sid]
      [] f.k = "media" ->
            IF ~openaiReady[s] \/ ow = "none" THEN Keep(s, tw, ow)
            ELSE IF f.p.t # "str" THEN Keep(s, tw, ow)
            ELSE TrySendOpenai(Keep(s, tw, ow), s, ow, <<append(f.p)>>)
      [] OTHER -> Keep(s, tw, ow)

\* telnyxWs.on("close") and telnyxWs.on("error")
handleTelnyxMediaWebSocket_close(s, tw, ow) ==
    IF ow # "none" /\ readyState(ow) = "OPEN"
    THEN [Keep(s, tw, ow) EXCEPT !.ow = close(ow)]
    ELSE Keep(s, tw, ow)

\* ================================== server_b, part_003_a, part_003_b (B)
\* openaiWs.on("open")
wss_open(s, tw, ow) ==
    SendOpenai(Keep(s, tw, ow), s, ow, <<sessionUpdate, itemCreate, responseCreate>>)

\* openaiWs.on("message"); part_003_b parses outside any try/catch
wss_openai_message(s, f, tw, ow) ==
    CASE f.k = "bad" ->
            IF variant = "part_003_b" THEN [Keep(s, tw, ow) EXCEPT !.threw = "yes"]
            ELSE Keep(s, tw, ow)
      [] f.k = "delta" /\ f.p.t = "obj" ->
            SendTelnyx(Keep(s, tw, ow), tw, <<media(0, Str(f.p.v))>>)
      [] OTHER -> Keep(s, tw, ow)

\* telnyxWs.on("message")
wss_telnyx_message(s, f, tw, ow) ==
    CASE f.k = "bad" -> Keep(s, tw, ow)
      [] f.k = "media" /\ f.p.t = "str" ->
            SendOpenai(Keep(s, tw, ow), s, ow, <<append(f.p)>>)
      [] f.k = "stop" ->
            SendOpenai(Keep(s, tw, ow), s, ow, <<commit, responseCreate>>)
      [] OTHER -> Keep(s, tw, ow)

\* cleanup, the listener of close and error on both sockets
cleanup(s, tw, ow) == [Keep(s, tw, ow) EXCEPT !.tw = close(tw), !.ow = close(ow)]

\* ======================================================== part_000 (C)
\* openaiWs.on("open")
mediaWss_open(s, tw, ow) ==
    SendOpenai(Keep(s, tw, ow), s, ow, <<sessionUpdate>>)

\* telnyxWs.on("message")
mediaWss_telnyx_message(s, f, tw, ow) ==
    CASE f.k = "bad" -> Keep(s, tw, ow)
      [] f.k = "start" ->
            IF readyState(ow) = "OPEN"
            THEN SendOpenai(Keep(s, tw, ow), s, ow, <<responseCreate>>)
            ELSE Keep(s, tw, ow)
      [] f.k = "media" ->
            IF f.p.t # "str" THEN Keep(s, tw, ow)
            ELSE IF readyState(ow) = "OPEN"
            THEN SendOpenai(Keep(s, tw, ow), s, ow, <<append(f.p)>>)
            ELSE Keep(s, tw, ow)
      [] f.k = "stop" ->
            IF readyState(ow) = "OPEN"
            THEN SendOpenai(Keep(s, tw, ow), s, ow, <<commit>>)
            ELSE Keep(s, tw, ow)
      [] OTHER -> Keep(s, tw, ow)

\* telnyxWs.on("close")
mediaWss_telnyx_close(s, tw, ow) ==
    IF readyState(ow) = "OPEN"
    THEN [Keep(s, tw, ow) EXCEPT !.ow = close(ow)]
    ELSE Keep(s, tw, ow)

\* openaiWs.on("message")
mediaWss_openai_message(s, f, tw, ow) ==
    CASE f.k = "bad" -> Keep(s, tw, ow)
      [] f.k = "delta" /\ f.p.t # "none" ->
            IF readyState(tw) = "OPEN"
            THEN SendTelnyx(Keep(s, tw, ow), tw, <<media(0, f.p)>>)
            ELSE Keep(s, tw, ow)
      [] OTHER -> Keep(s, tw, ow)

\* ======================================================== part_001 (D)
\* mediaWS.on("message"): the frame is piped as received
pipe_telnyx_message(s, f, tw, ow) == SendOpenai(Keep(s, tw, ow), s, ow, <<Raw(f)>>)

\* openaiWS.on("message")
pipe_openai_message(s, f, tw, ow) == SendTelnyx(Keep(s, tw, ow), tw, <<Raw(f)>>)

\* openaiWS.on("close")
pipe_openai_close(s, tw, ow) == [Keep(s, tw, ow) EXCEPT !.tw = close(tw)]

\* mediaWS.on("close")
pipe_telnyx_close(s, tw, ow) == [Keep(s, tw, ow) EXCEPT !.ow = close(ow)]

\* ======================================================== part_002 (E)
\* openaiWS.on("open"): writes to whatever the module-level openaiWS is now
shared_open(s, tw, ow) ==
    SendOpenai(Keep(s, tw, ow), openaiWS, OpenaiState(openaiWS, s, ow), <<responseCreate>>)

\* ws.on("message", async ...): an exception rejects the listener's promise
shared_telnyx_message(s, f, tw, ow) ==
    CASE f.k = "bad" -> Keep(s, tw, ow)
      [] f.k = "media" ->
            IF f.p.t = "nomedia" THEN [Keep(s, tw, ow) EXCEPT !.threw = "rejection"]
            ELSE IF openaiWS # 0 /\ readyState(OpenaiState(openaiWS, s, ow)) = "OPEN"
            THEN SendOpenai(Keep(s, tw, ow), openaiWS, OpenaiState(openaiWS, s, ow),
                            <<append(f.p)>>)
            ELSE Keep(s, tw, ow)
      [] OTHER -> Keep(s, tw, ow)

\* openaiWS.on("message"): parses outside any try/catch
shared_openai_message(s, f, tw, ow) ==
    CASE f.k = "bad" -> [Keep(s, tw, ow) EXCEPT !.threw = "yes"]
      [] f.k = "delta" -> SendTelnyx(Keep(s, tw, ow), tw, <<media(0, f.p)>>)
      [] OTHER -> Keep(s, tw, ow)

\* An 'error' event on an emitter without an 'error' listener is thrown.
NoErrorListener(s, tw, ow) == [Keep(s, tw, ow) EXCEPT !.threw = "yes"]

\* ===================================================== webhook listeners
\* A notification: its event_type, whether data.payload is present, the
\* call_control_id in it (0 = absent) and how the telephony provider answers
\* a streaming-activation request made for it: "ok", "fail" (a non-2xx
\* response) or "throw" (no response: a transport error).
Notification(kind, hasPayload, cid, outcome) ==
    [kind |-> kind, hasPayload |-> hasPayload, cid |-> cid, outcome |-> outcome]

Notifications ==
    {Notification("call.answered", TRUE, c, o) :
        c \in 0..MaxCallId, o \in {"ok", "fail", "throw"}}
    \cup {Notification(k, TRUE, c, "ok") :
        k \in {"call.initiated", "call.hangup", "other"}, c \in 0..MaxCallId}
    \cup {Notification(k, FALSE, 0, "ok") :
        k \in {"call.initiated", "call.answered", "call.hangup", "other"}}

\* What a webhook listener leaves behind: the call identifier it issued a
\* streaming-activation request for (-1 = no request), its HTTP response
\* ("none" = the request is never answered) and whether its promise rejected.
Handled(req, resp, threw) == [req |-> req, resp |-> resp, threw |-> threw]

\* A listener that starts streaming for every notification with a call id.
webhook_fetch_guarded_anykind(n) ==
    IF n.cid # 0
    THEN Handled(n.cid, IF n.outcome = "throw" THEN "500" ELSE "200", "no")
    ELSE Handled(-1, "200", "no")

\* server_b and part_003_a: the whole listener sits in try/catch; fetch
\* resolves on a non-2xx response and rejects on a transport error.
webhook_fetch_guarded(n) ==
    IF n.kind = "call.answered" /\ n.cid # 0
    THEN Handled(n.cid, IF n.outcome = "throw" THEN "500" ELSE "200", "no")
    ELSE Handled(-1, "200", "no")

\* part_003_b: the same listener without try/catch
webhook_fetch(n) ==
    IF n.kind = "call.answered" /\ n.cid # 0
    THEN IF n.outcome = "throw" THEN Handled(n.cid, "none", "rejection")
         ELSE Handled(n.cid, "200", "no")
    ELSE Handled(-1, "200", "no")

\* part_000: answers 200 first; startTelnyxMediaStream catches what axios throws
startTelnyxMediaStream(callControlId) == Handled(callControlId, "200", "no")

\* A listener that also calls the provider for a call.hangup notification.
webhook_part_000_hangup(n) ==
    IF ~n.hasPayload \/ n.cid = 0 THEN Handled(-1, "200", "no")
    ELSE IF n.kind \in {"call.answered", "call.hangup"} THEN startTelnyxMediaStream(n.cid)
    ELSE Handled(-1, "200", "no")

webhook_part_000(n) ==
    IF ~n.hasPayload \/ n.cid = 0 THEN Handled(-1, "200", "no")
    ELSE IF n.kind = "call.answered" THEN startTelnyxMediaStream(n.cid)
    ELSE Handled(-1, "200", "no")

\* part_001: payload.call_control_id and axios.post outside any try/catch;
\* axios rejects on a non-2xx response as on a transport error
webhook_part_001(n) ==
    IF n.kind # "call.answered" THEN Handled(-1, "200", "no")
    ELSE IF ~n.hasPayload THEN Handled(-1, "none", "rejection")
    ELSE IF n.outcome = "ok" THEN Handled(n.cid, "200", "no")
    ELSE Handled(n.cid, "none", "rejection")

\* part_002: only axios.post sits in try/catch
webhook_part_002(n) ==
    IF n.kind # "call.answered" THEN Handled(-1, "200", "no")
    ELSE IF ~n.hasPayload THEN Handled(-1, "none", "rejection")
    ELSE Handled(n.cid, "200", "no")

OnWebhook(n) ==
    CASE variant \in {"server_b", "part_003_a"} -> webhook_fetch_guarded(n)
      [] variant = "part_003_b" -> webhook_fetch(n)
      [] variant = "part_000" -> webhook_part_000(n)
      [] variant = "part_001" -> webhook_part_001(n)
      [] OTHER -> webhook_part_002(n)

\* ========================================================== GET /call
\* An operator request: whether ?to= is given, how the provider answers the
\* call-creation request ("ok": 2xx with the call in `data`, "nodata": 2xx
\* without `data`, "fail": non-2xx, "throw": a transport error), the
\* call_control_id of the created call (0 = no call was created), and how
\* the provider answers a streaming_start request made for it.
CallRequest(hasTo, create, cid, stream) ==
    [hasTo |-> hasTo, create |-> create, cid |-> cid, stream |-> stream]

CallRequests ==
    {CallRequest(h, "ok", i, o) :
        h \in BOOLEAN, i \in CallIds, o \in {"ok", "fail", "throw"}}
    \cup {CallRequest(h, c, 0, "ok") :
        h \in BOOLEAN, c \in {"nodata", "fail", "throw"}}

\* What the /call listener leaves behind: whether it issued a call-creation
\* request and whether that request carried a stream_url, the call identifier
\* it issued a streaming-activation request for (-1 = no request), the HTTP
\* status and the `ok` field of its response ("absent": a body without one).
Called(req, cfg, act, status, ok) ==
    [req |-> req, cfg |-> cfg, act |-> act, status |-> status, ok |-> ok]

\* A listener that issues streaming_start without testing the call creation.
call_server_a_unchecked(q) ==
    IF ~q.hasTo THEN Called(FALSE, FALSE, -1, "400", "false")
    ELSE IF q.create # "ok" \/ q.stream # "ok" THEN Called(TRUE, FALSE, q.cid, "500", "false")
    ELSE Called(TRUE, FALSE, q.cid, "200", "true")

\* server_a: creates the call, then issues streaming_start right away
call_server_a(q) ==
    IF ~q.hasTo THEN Called(FALSE, FALSE, -1, "400", "false")
    ELSE IF q.create # "ok" THEN Called(TRUE, FALSE, -1, "500", "false")
    ELSE IF q.stream # "ok" THEN Called(TRUE, FALSE, q.cid, "500", "false")
    ELSE Called(TRUE, FALSE, q.cid, "200", "true")

\* part_000: axios rejects on a non-2xx response as on a transport error
call_part_000(q) ==
    IF ~q.hasTo THEN Called(FALSE, FALSE, -1, "400", "false")
    ELSE IF q.create \in {"fail", "throw"} THEN Called(TRUE, FALSE, -1, "500", "false")
    ELSE Called(TRUE, FALSE, -1, "200", "true")

\* part_001: no test of ?to=, and a failure is answered with status 200
call_part_001(q) ==
    IF q.create \in {"fail", "throw"} THEN Called(TRUE, FALSE, -1, "200", "false")
    ELSE Called(TRUE, FALSE, -1, "200", "true")

\* part_002: the call-creation request carries stream_url
call_part_002(q) ==
    IF ~q.hasTo THEN Called(FALSE, FALSE, -1, "200", "false")
    ELSE IF q.create \in {"fail", "throw"} THEN Called(TRUE, TRUE, -1, "200", "false")
    ELSE Called(TRUE, TRUE, -1, "200", "true")

\* part_003_a: fetch resolves on a non-2xx response; only response.ok is tested
call_part_003(q) ==
    IF ~q.hasTo THEN Called(FALSE, FALSE, -1, "400", "absent")
    ELSE IF q.create \in {"fail", "throw"} THEN Called(TRUE, FALSE, -1, "500", "false")
    ELSE Called(TRUE, FALSE, -1, "200", "true")

HasCallRoute == variant \in {"server_a", "part_000", "part_001", "part_002", "part_003_a"}

OnCall(q) ==
    CASE variant = "server_a" -> call_server_a(q)
      [] variant = "part_000" -> call_part_000(q)
      [] variant = "part_001" -> call_part_001(q)
      [] variant = "part_002" -> call_part_002(q)
      [] OTHER -> call_part_003(q)

\* ===================================================== listeners by variant
LogOnly(s, tw, ow) == Keep(s, tw, ow)

OnOpenaiOpen(s, tw, ow) ==
    CASE variant = "server_a" -> connectOpenAI_open(s, tw, ow)
      [] IsServerB -> wss_open(s, tw, ow)
      [] variant = "part_000" -> mediaWss_open(s, tw, ow)
      [] variant = "part_001" -> LogOnly(s, tw, ow)
      [] OTHER -> shared_open(s, tw, ow)

OnOpenaiMessage(s, f, tw, ow) ==
    CASE variant = "server_a" -> connectOpenAI_message(s, f, tw, ow)
      [] IsServerB -> wss_openai_message(s, f, tw, ow)
      [] variant = "part_000" -> mediaWss_openai_message(s, f, tw, ow)
      [] variant = "part_001" -> pipe_openai_message(s, f, tw, ow)
      [] OTHER -> shared_openai_message(s, f, tw, ow)

OnOpenaiClose(s, tw, ow) ==
    CASE variant = "server_a" -> connectOpenAI_close(s, tw, ow)
      [] IsServerB -> cleanup(s, tw, ow)
      [] variant = "part_000" -> LogOnly(s, tw, ow)
      [] variant = "part_001" -> pipe_openai_close(s, tw, ow)
      [] OTHER -> LogOnly(s, tw, ow)

OnOpenaiError(s, tw, ow) ==
    CASE variant = "server_a" -> connectOpenAI_close(s, tw, ow)
      [] IsServerB -> cleanup(s, tw, ow)
      [] variant = "part_000" -> LogOnly(s, tw, ow)
      [] OTHER -> NoErrorListener(s, tw, ow)

OnTelnyxMessage(s, f, tw, ow) ==
    CASE variant = "server_a" -> handleTelnyxMediaWebSocket_message(s, f, tw, ow)
      [] IsServerB -> wss_telnyx_message(s, f, tw, ow)
      [] variant = "part_000" -> mediaWss_telnyx_message(s, f, tw, ow)
      [] variant = "part_001" -> pipe_telnyx_message(s, f, tw, ow)
      [] OTHER -> shared_telnyx_message(s, f, tw, ow)

OnTelnyxClose(s, tw, ow) ==
    CASE variant = "server_a" -> handleTelnyxMediaWebSocket_close(s, tw, ow)
      [] IsServerB -> cleanup(s, tw, ow)
      [] variant = "part_000" -> mediaWss_telnyx_close(s, tw, ow)
      [] variant = "part_001" -> pipe_telnyx_close(s, tw, ow)
      [] OTHER -> LogOnly(s, tw, ow)

OnTelnyxError(s, tw, ow) ==
    CASE variant = "server_a" -> handleTelnyxMediaWebSocket_close(s, tw, ow)
      [] IsServerB -> cleanup(s, tw, ow)
      [] variant = "part_000" -> LogOnly(s, tw, ow)
      [] OTHER -> NoErrorListener(s, tw, ow)

\* ================================================================ actions
ctlVars == <<activations, answered, hookResp, wev, nhooks, created, streamCfg,
             creations, callResp, cev, ncalls>>
bridgeVars == <<telnyxWs, openaiWs, streamId, openaiReady, openaiWS, toOpenai,
                toTelnyx, ev, nevents, triedOpenai>>

Event(k, s, f) == [k |-> k, s |-> s, f |-> f]

\* The state one listener call of session s leaves behind.
Apply(s, R, e) ==
    /\ telnyxWs' = [telnyxWs EXCEPT ![s] = R.tw]
    /\ openaiWs' = [openaiWs EXCEPT ![s] = R.ow]
    /\ streamId' = [streamId EXCEPT ![s] = R.sid]
    /\ openaiReady' = [openaiReady EXCEPT ![s] = R.ready]
    /\ toOpenai' = IF R.outO = <<>> THEN toOpenai
                   ELSE [toOpenai EXCEPT ![R.oc] = @ \o R.outO]
    /\ toTelnyx' = [toTelnyx EXCEPT ![s] = @ \o R.outT]
    /\ triedOpenai' = R.tried
    /\ alive' \in (CASE R.threw = "no" -> {TRUE}
                     [] R.threw = "yes" -> {FALSE}
                     [] OTHER -> {TRUE, FALSE})
    /\ ev' = e
    /\ UNCHANGED <<variant, env, openaiWS>>
    /\ UNCHANGED ctlVars

\* The telephony provider's media connection is accepted: the connection
\* handler creates the voice-model socket of the session.
Accept(s) ==
    /\ alive
    /\ telnyxWs[s] = "none"
    /\ \A r \in Sessions : r < s => telnyxWs[r] # "none"
    /\ nevents < MaxEvents
    /\ nevents' = nevents + 1
    /\ telnyxWs' = [telnyxWs EXCEPT ![s] = "open"]
    /\ openaiWs' = [openaiWs EXCEPT ![s] = "connecting"]
    /\ openaiWS' = IF variant = "part_002" THEN s ELSE openaiWS
    /\ ev' = Event("accept", s, NoFrame)
    /\ triedOpenai' = 0
    /\ UNCHANGED <<variant, env, alive, streamId, openaiReady, toOpenai, toTelnyx>>
    /\ UNCHANGED ctlVars

OpenaiOpen(s) ==
    /\ alive
    /\ openaiWs[s] = "connecting"
    /\ Apply(s, OnOpenaiOpen(s, telnyxWs[s], "open"), Event("openai.open", s, NoFrame))
    /\ UNCHANGED nevents

OpenaiMessage(s, f) ==
    /\ alive
    /\ nevents < MaxEvents
    /\ openaiWs[s] \in {"open", "closing"}
    /\ Apply(s, OnOpenaiMessage(s, f, telnyxWs[s], openaiWs[s]),
             Event("openai.message", s, f))
    /\ nevents' = nevents + 1

OpenaiError(s) ==
    /\ alive
    /\ openaiWs[s] \in {"connecting", "open", "aborted"}
    /\ Apply(s, OnOpenaiError(s, telnyxWs[s], "errored"), Event("openai.error", s, NoFrame))
    /\ UNCHANGED nevents

OpenaiClose(s) ==
    /\ alive
    /\ openaiWs[s] \in {"open", "closing", "errored"}
    /\ Apply(s, OnOpenaiClose(s, telnyxWs[s], "closed"), Event("openai.close", s, NoFrame))
    /\ UNCHANGED nevents

TelnyxMessage(s, f) ==
    /\ alive
    /\ nevents < MaxEvents
    /\ telnyxWs[s] \in {"open", "closing"}
    /\ Apply(s, OnTelnyxMessage(s, f, telnyxWs[s], openaiWs[s]),
             Event("telnyx.message", s, f))
    /\ nevents' = nevents + 1

TelnyxError(s) ==
    /\ alive
    /\ telnyxWs[s] = "open"
    /\ Apply(s, OnTelnyxError(s, "errored", openaiWs[s]), Event("telnyx.error", s, NoFrame))
    /\ UNCHANGED nevents

TelnyxClose(s) ==
    /\ alive
    /\ telnyxWs[s] \in {"open", "closing", "errored"}
    /\ Apply(s, OnTelnyxClose(s, "closed", openaiWs[s]), Event("telnyx.close", s, NoFrame))
    /\ UNCHANGED nevents

\* POST /telnyx-webhook (part_002: POST /webhook); server_a has no such route.
Webhook(n) ==
    /\ alive
    /\ variant # "server_a"
    /\ nhooks < MaxHooks
    /\ LET R == OnWebhook(n) IN
        /\ activations' = IF R.req < 0 THEN activations
                          ELSE [activations EXCEPT ![R.req] = @ + 1]
        /\ hookResp' = R.resp
        /\ alive' \in (IF R.threw = "no" THEN {TRUE} ELSE {TRUE, FALSE})
    /\ answered' = IF n.kind = "call.answered" /\ n.cid # 0
                   THEN [answered EXCEPT ![n.cid] = @ + 1] ELSE answered
    /\ wev' = n
    /\ nhooks' = nhooks + 1
    /\ UNCHANGED <<variant, env, created, streamCfg, creations, callResp, cev, ncalls>>
    /\ UNCHANGED bridgeVars

\* GET /call; server_b and part_003_b have no such route.  The provider
\* gives a created call an identifier no earlier call of this server has.
Call(q) ==
    /\ alive
    /\ HasCallRoute
    /\ ncalls < MaxCalls
    /\ q.create = "ok" => ~created[q.cid]
    /\ LET R == OnCall(q) IN
        /\ creations' = IF R.req THEN creations + 1 ELSE creations
        /\ created' = IF R.req /\ q.create = "ok"
                       THEN [created EXCEPT ![q.cid] = TRUE] ELSE created
        /\ streamCfg' = IF R.req /\ q.create = "ok" /\ R.cfg
                         THEN [streamCfg EXCEPT ![q.cid] = TRUE] ELSE streamCfg
        /\ activations' = IF R.act < 0 THEN activations
                           ELSE [activations EXCEPT ![R.act] = @ + 1]
        /\ callResp' = [status |-> R.status, ok |-> R.ok]
    /\ cev' = q
    /\ ncalls' = ncalls + 1
    /\ UNCHANGED <<variant, env, alive, answered, hookResp, wev, nhooks>>
    /\ UNCHANGED bridgeVars

vars == <<variant, alive, telnyxWs, openaiWs, streamId, openaiReady, openaiWS,
          toOpenai, toTelnyx, ev, nevents, activations, answered, hookResp, wev,
          nhooks, env, created, streamCfg, creations, callResp, cev, ncalls,
          triedOpenai>>

Init ==
    /\ variant \in Variants
    /\ alive = TRUE
    /\ telnyxWs = [s \in Sessions |-> "none"]
    /\ openaiWs = [s \in Sessions |-> "none"]
    /\ streamId = [s \in Sessions |-> 0]
    /\ openaiReady = [s \in Sessions |-> FALSE]
    /\ openaiWS = 0
    /\ toOpenai = [s \in Sessions |-> <<>>]
    /\ toTelnyx = [s \in Sessions |-> <<>>]
    /\ ev = Event("init", 0, NoFrame)
    /\ nevents = 0
    /\ activations = [c \in 0..MaxCallId |-> 0]
    /\ answered = [c \in CallIds |-> 0]
    /\ hookResp = "none"
    /\ wev = Notification("", FALSE, 0, "")
    /\ nhooks = 0
    /\ env \in BOOLEAN
    /\ created = [c \in CallIds |-> FALSE]
    /\ streamCfg = [c \in CallIds |-> FALSE]
    /\ creations = 0
    /\ callResp = [status |-> "none", ok |-> "absent"]
    /\ cev = CallRequest(FALSE, "", 0, "")
    /\ ncalls = 0
    /\ triedOpenai = 0

Next ==
    \/ \E s \in Sessions : Accept(s)
    \/ \E s \in Sessions : OpenaiOpen(s)
    \/ \E s \in Sessions, f \in OpenaiFrames : OpenaiMessage(s, f)
    \/ \E s \in Sessions : OpenaiError(s)
    \/ \E s \in Sessions : OpenaiClose(s)
    \/ \E s \in Sessions, f \in TelnyxFrames : TelnyxMessage(s, f)
    \/ \E s \in Sessions : TelnyxError(s)
    \/ \E s \in Sessions : TelnyxClose(s)

\* The media bridge: sessions, their two sockets and the frames on them.
Spec == Init /\ [][Next]_vars

\* The call lifecycle controller: operator requests and webhook notifications.
NextCtl ==
    \/ \E n \in Notifications : Webhook(n)
    \/ \E q \in CallRequests : Call(q)

SpecCtl == Init /\ [][NextCtl]_vars

\* The whole server: media sessions and webhook notifications side by
\* side, up to MaxSteps connections, frames and notifications in all.
Steps == nevents + nhooks

NextAll ==
    \/ Steps < MaxSteps /\ Next
    \/ Steps < MaxSteps /\ \E n \in Notifications : Webhook(n)

SpecAll == Init /\ [][NextAll]_vars

\* ================================================================= claims
\* Everything one Bridge Session holds.
SessionState(s) ==
    <<telnyxWs[s], openaiWs[s], streamId[s], openaiReady[s], toOpenai[s], toTelnyx[s]>>

\* The last step was a listener call of session s.
Handling(e, s) == e.s = s /\ e.k # "init"

\* C1: when the telephony media connection has closed or errored, the paired
\* voice-model connection is neither still connecting nor open.
C1_TelnyxCloseClosesOpenai ==
    \A s \in Sessions :
        (alive /\ telnyxWs[s] \in {"errored", "closed"})
            => readyState(openaiWs[s]) \notin {"CONNECTING", "OPEN"}

\* C2: when the voice-model connection has closed or errored, the paired
\* telephony media connection is no longer open.
C2_OpenaiCloseClosesTelnyx ==
    \A s \in Sessions :
        (alive /\ openaiWs[s] \in {"errored", "closed"})
            => readyState(telnyxWs[s]) # "OPEN"

\* The readiness mark the running revision keeps for session s: the
\* openaiReady flag (server_a), or the readyState test made on the
\* voice-model socket before each write (part_000; part_002 makes it on the
\* module-level socket).  The other revisions keep no mark.
MarkedReady(s) ==
    CASE variant = "server_a" -> openaiReady[s]
      [] variant = "part_000" -> readyState(openaiWs[s]) = "OPEN"
      [] variant = "part_002" -> openaiWS # 0 /\ readyState(openaiWs[openaiWS]) = "OPEN"
      [] OTHER -> FALSE

\* A well-formed telephony media frame: it carries a payload string.
WellFormedMedia(f) == f.k = "media" /\ f.p.t = "str"

\* The messages a step adds to a log.
Added(old, new) == SubSeq(new, Len(old) + 1, Len(new))

\* C3: a well-formed media frame that arrives while the session's voice-model
\* connection is marked ready puts exactly one append message with the same
\* payload at the end of what that connection was sent, and an append
\* message with audio in it is only ever added by a media frame of that
\* session, one a frame.
C3_ReadyMediaForwardedInOrder ==
    [][\A s \in Sessions :
        /\ (ev'.k = "telnyx.message" /\ ev'.s = s /\ WellFormedMedia(ev'.f)
                /\ MarkedReady(s))
            => toOpenai'[s] = Append(toOpenai[s], append(ev'.f.p))
        /\ (\E i \in 1..Len(toOpenai'[s]) :
                /\ i > Len(toOpenai[s])
                /\ toOpenai'[s][i].type = "input_audio_buffer.append"
                /\ toOpenai'[s][i].p.t = "str")
            => (ev'.k = "telnyx.message" /\ ev'.s = s /\ ev'.f.k = "media"
                /\ Added(toOpenai[s], toOpenai'[s]) = <<append(ev'.f.p)>>)
      ]_vars

\* An audio delta in the shape the running revision reads its chunk from:
\* delta.audio in server_b and part_003, delta itself in the others.
CarriesAudio(f) ==
    f.k = "delta" /\ (IF IsServerB THEN f.p.t = "obj" ELSE f.p.t # "none")

\* C4: an audio delta that reaches an open session right after a start frame
\* recorded stream identifier i is forwarded to the telephony connection as
\* one media frame with the delta's audio, tagged with i.
C4_DeltaForwardedTagged ==
    [][\A s \in Sessions :
        (/\ ev.k = "telnyx.message" /\ ev.s = s /\ ev.f.k = "start" /\ ev.f.sid # 0
         /\ ev'.k = "openai.message" /\ ev'.s = s /\ CarriesAudio(ev'.f)
         /\ telnyxWs[s] = "open")
            => /\ Len(toTelnyx'[s]) = Len(toTelnyx[s]) + 1
               /\ LET m == toTelnyx'[s][Len(toTelnyx'[s])] IN
                    /\ m.type = "media"
                    /\ m.sid = ev.f.sid
                    /\ m.p.v = ev'.f.p.v
      ]_vars

\* C5: no call identifier ever has more than one streaming-activation
\* request issued for it, and one that received an "answered" notification
\* has exactly one.
C5_OneActivationPerCall ==
    \A c \in CallIds :
        /\ activations[c] <= 1
        /\ answered[c] > 0 => activations[c] = 1

\* C6: a frame that does not parse, on either connection, closes no
\* connection, sends nothing, leaves stream identifier and readiness flag
\* alone, and leaves the process running.
C6_MalformedFrameDropped ==
    [][(ev'.k \in {"telnyx.message", "openai.message"} /\ ev'.f.k = "bad")
        => /\ alive'
           /\ UNCHANGED <<telnyxWs, openaiWs, streamId, openaiReady, toOpenai, toTelnyx>>
      ]_vars

\* C7: a listener call of one session writes to no other session's
\* voice-model or telephony connection, and accepting a connection leaves
\* the voice-model connection an existing session writes to as it was.
C7_SessionsOwnTheirSockets ==
    [][/\ \A s \in Sessions :
            (Handling(ev', s) /\ ev'.k # "accept")
                => \A r \in Sessions \ {s} :
                        toOpenai'[r] = toOpenai[r] /\ toTelnyx'[r] = toTelnyx[r]
       /\ (ev'.k = "accept" /\ openaiWS # 0) => openaiWS' = openaiWS
      ]_vars

\* A data-plane fault: a frame that does not parse, a frame lacking an
\* expected field, or a peer's close or error.
Fault(e) ==
    \/ e.k \in {"telnyx.close", "telnyx.error", "openai.close", "openai.error"}
    \/ e.k \in {"telnyx.message", "openai.message"} /\ e.f.k = "bad"
    \/ e.k = "telnyx.message" /\ e.f.k = "start" /\ e.f.sid = 0
    \/ e.k = "telnyx.message" /\ e.f.k = "media" /\ e.f.p.t # "str"
    \/ e.k = "openai.message" /\ e.f.k = "delta" /\ e.f.p.t = "none"

\* C8: a data-plane fault in one session leaves every other session as it
\* was and the process running.
C8_FaultsContained ==
    [][\A s \in Sessions :
        (Handling(ev', s) /\ Fault(ev'))
            => /\ alive'
               /\ \A r \in Sessions \ {s} : SessionState(r)' = SessionState(r)
      ]_vars

\* C9: a well-formed media frame that arrives while the voice-model connection is still
\* connecting is dropped: nothing is written, no write is attempted (none
\* throws), and later steps add no append message of their own.
C9_MediaBeforeReadyDropped ==
    [][\A s \in Sessions :
        (ev'.k = "telnyx.message" /\ ev'.s = s /\ WellFormedMedia(ev'.f)
            /\ readyState(openaiWs[s]) = "CONNECTING")
            => alive' /\ toOpenai' = toOpenai
      ]_vars

\* C10: once the telephony connection of a session has closed, no listener
\* call of that session sends anything to either connection.
C10_NothingSentAfterTelnyxClose ==
    [][\A s \in Sessions :
        (telnyxWs[s] = "closed" /\ Handling(ev', s))
            => toOpenai' = toOpenai /\ toTelnyx' = toTelnyx
      ]_vars

\* C11: a streaming-activation request has been issued for a call
\* identifier, or media streaming configured when the call was created, only
\* if an "answered" notification for that identifier has been received.
C11_ActivationOnlyAfterAnswered ==
    \A c \in CallIds :
        (activations[c] > 0 \/ streamCfg[c]) => answered[c] > 0

\* C12: a stop frame that arrives while the session's voice-model connection
\* is open adds exactly one commit message to what that connection was
\* sent, after everything sent before it.
C12_StopCommits ==
    [][\A s \in Sessions :
        (ev'.k = "telnyx.message" /\ ev'.s = s /\ ev'.f.k = "stop"
            /\ openaiWs[s] = "open")
            => LET a == Added(toOpenai[s], toOpenai'[s]) IN
                /\ SubSeq(toOpenai'[s], 1, Len(toOpenai[s])) = toOpenai[s]
                /\ Cardinality({i \in 1..Len(a) : a[i] = commit}) = 1
      ]_vars

\* The session-configuration message has been accepted for send on the
\* voice-model connection of session s.
Configured(s) == \E i \in 1..Len(toOpenai[s]) : toOpenai[s][i] = sessionUpdate

\* C13: the readiness flag of a session is true only if its
\* session-configuration message has been accepted for send on its
\* voice-model connection.
C13_ReadyOnlyAfterConfigured ==
    \A s \in Sessions : openaiReady[s] => Configured(s)

C13_Witness ==
    \E s \in Sessions : openaiReady[s] /\ Configured(s) /\ openaiWs[s] = "open"

\* C14: a voice-model connection that is open has been sent its
\* session-configuration message; the message is the first thing the
\* connection was sent, and it was sent once.
C14_ConfiguredFirstAndOnce ==
    \A s \in Sessions :
        /\ openaiWs[s] = "open" => Configured(s)
        /\ toOpenai[s] # <<>> => toOpenai[s][1] = sessionUpdate
        /\ Cardinality({i \in 1..Len(toOpenai[s]) : toOpenai[s][i] = sessionUpdate}) <= 1

\* C15: every webhook notification is answered with a success
\* acknowledgement, whatever its kind, its payload and the outcome of the
\* streaming-activation request made for it.
C15_WebhookAlwaysAcknowledged ==
    nhooks > 0 => hookResp = "200"

\* C16: a streaming-activation request that fails is contained: exactly that
\* one request was issued for the notification and the process keeps
\* running.
C16_ActivationFailureContained ==
    [][(nhooks' # nhooks /\ wev'.kind = "call.answered" /\ wev'.hasPayload
            /\ wev'.cid # 0 /\ wev'.outcome \in {"fail", "throw"})
        => /\ alive'
           /\ activations' = [activations EXCEPT ![wev'.cid] = @ + 1]
      ]_vars

\* C17: an operator request whose call-creation request fails, returns no
\* call data or throws, or whose streaming-activation request fails, is
\* answered with a payload whose success flag is false.
C17_CallFailureReported ==
    [][(creations' # creations
            /\ \/ cev'.create # "ok"
               \/ activations' # activations /\ cev'.stream # "ok")
        => callResp'.ok = "false"
      ]_vars

\* C18: a close or error event on either connection of a session leaves
\* neither connection of the session open or connecting, sends nothing and
\* leaves the process running; when the paired connection was already torn
\* down, the event leaves it as it was.
C18_TeardownIdempotent ==
    [][\A s \in Sessions :
        (Handling(ev', s)
            /\ ev'.k \in {"telnyx.close", "telnyx.error", "openai.close", "openai.error"})
        => /\ alive'
           /\ readyState(telnyxWs'[s]) \notin {"CONNECTING", "OPEN"}
           /\ readyState(openaiWs'[s]) \notin {"CONNECTING", "OPEN"}
           /\ toOpenai' = toOpenai /\ toTelnyx' = toTelnyx
           /\ (ev'.k \in {"telnyx.close", "telnyx.error"}
                    /\ readyState(openaiWs[s]) \notin {"CONNECTING", "OPEN"})
                => openaiWs'[s] = openaiWs[s]
           /\ (ev'.k \in {"openai.close", "openai.error"}
                    /\ readyState(telnyxWs[s]) \notin {"CONNECTING", "OPEN"})
                => telnyxWs'[s] = telnyxWs[s]
      ]_vars

\* C19: the voice-model connection of a session starts connecting only when
\* the session's telephony connection is accepted, which happens once; no
\* later step of the session opens a connection again.
C19_OneVoiceConnectionPerSession ==
    [][\A s \in Sessions :
        /\ (ev'.k = "accept" /\ ev'.s = s)
            => openaiWs[s] = "none" /\ openaiWs'[s] = "connecting"
        /\ (openaiWs[s] # "none" /\ Handling(ev', s))
            => /\ ev'.k # "accept"
               /\ openaiWs'[s] # "connecting" \/ openaiWs[s] = "connecting"
               /\ openaiWs'[s] # "none"
               /\ openaiWs'[s] = "open" => openaiWs[s] \in {"connecting", "open"}
      ]_vars

C19_Witness ==
    \E s \in Sessions :
        /\ openaiWs[s] = "closed"
        /\ ev.s = s /\ ev.k = "telnyx.message"

\* C20: when a required credential or the domain is absent at startup, no
\* call-creation request, no streaming-activation request and no voice-model
\* connection is ever attempted.
C20_MissingConfigRefusesStart ==
    ~env => /\ creations = 0
            /\ \A c \in 0..MaxCallId : activations[c] = 0
            /\ \A s \in Sessions : openaiWs[s] = "none"

\* C21: a step adds something to what a telephony connection was sent only
\* when it handles a frame from that session's voice model; it then adds one
\* message, at the end, carrying the audio of that frame.  Frames therefore
\* leave in the order the audio deltas arrived, one a delta at most, none
\* held back.
C21_DeltasRelayedInOrder ==
    [][\A s \in Sessions :
        toTelnyx'[s] # toTelnyx[s]
            => /\ ev'.k = "openai.message" /\ ev'.s = s
               /\ Len(toTelnyx'[s]) = Len(toTelnyx[s]) + 1
               /\ SubSeq(toTelnyx'[s], 1, Len(toTelnyx[s])) = toTelnyx[s]
               /\ toTelnyx'[s][Len(toTelnyx'[s])].p.v = ev'.f.p.v
      ]_vars

C21_Witness ==
    \E s \in Sessions :
        /\ Len(toTelnyx[s]) = 2
        /\ toTelnyx[s][1].type = "media" /\ toTelnyx[s][2].type = "media"
        /\ toTelnyx[s][1].p.v = 2 /\ toTelnyx[s][2].p.v = 1
        /\ ev.k = "openai.message" /\ ev.s = s /\ ev.f.k = "delta" /\ ev.f.p.v = 1

\* C22: a session whose session-configuration message (which declares
\* server-driven turn detection) has been sent answers a stop frame with no
\* explicit commit and no explicit response request.
C22_OneTurnDetection ==
    [][\A s \in Sessions :
        (ev'.k = "telnyx.message" /\ ev'.s = s /\ ev'.f.k = "stop" /\ Configured(s))
            => LET a == Added(toOpenai[s], toOpenai'[s]) IN
                \A i \in 1..Len(a) : a[i] \notin {commit, responseCreate}
      ]_vars

\* C23: a start frame that carries a stream identifier records it in the
\* session and does nothing else: nothing is sent to either connection, and
\* the readiness flag, both connections and the process stay as they were.
C23_StartOnlyRecordsStreamId ==
    [][\A s \in Sessions :
        (ev'.k = "telnyx.message" /\ ev'.s = s /\ ev'.f.k = "start" /\ ev'.f.sid # 0)
            => /\ streamId'[s] = ev'.f.sid
               /\ alive'
               /\ UNCHANGED <<telnyxWs, openaiWs, openaiReady, toOpenai, toTelnyx>>
      ]_vars

\* C24: handling a "hangup" notification issues no request to the telephony
\* provider and leaves every Bridge Session (both connections, stream
\* identifier, readiness flag, what was sent) and the process as they were.
C24_HangupTouchesNoSession ==
    [][(nhooks' # nhooks /\ wev'.kind = "call.hangup")
        => /\ activations' = activations /\ creations' = creations
           /\ alive'
           /\ UNCHANGED <<telnyxWs, openaiWs, streamId, openaiReady, openaiWS,
                          toOpenai, toTelnyx>>
      ]_vars

C24_Witness ==
    /\ wev.kind = "call.hangup" /\ wev.cid # 0
    /\ \E s \in Sessions : telnyxWs[s] = "open" /\ openaiWs[s] = "open"

\* C25: a notification of any kind other than "answered" issues no
\* streaming-activation request, records nothing for any call identifier and
\* leaves the process running.
C25_OnlyAnsweredActivates ==
    [][(nhooks' # nhooks /\ wev'.kind # "call.answered")
        => /\ activations' = activations
           /\ UNCHANGED <<answered, created, streamCfg, creations>>
           /\ alive'
      ]_vars

C25_Witness ==
    /\ wev.kind = "other" /\ wev.hasPayload /\ wev.cid # 0
    /\ activations[wev.cid] = 1

C27_NoAppendAfterVoiceClose ==
    [][\A s \in Sessions :
        /\ openaiWs'[s] \in {"errored", "closed"} => ~openaiReady'[s]
        /\ (openaiWs[s] \in {"errored", "closed"}
                /\ ev'.k = "telnyx.message" /\ ev'.s = s /\ ev'.f.k = "media")
            => triedOpenai' # s
      ]_vars

\* C28: when relaying a frame makes a send call that throws (the peer socket
\* is still connecting), the listener contains it: the process keeps
\* running, and the session's connections, stream identifier and readiness
\* flag stay as they were.
C28_SendFailureContained ==
    [][\A s \in Sessions :
        (/\ ev'.k \in {"telnyx.message", "openai.message"} /\ ev'.s = s
         /\ triedOpenai' # 0 /\ send(openaiWs[triedOpenai']) = "throw")
            => /\ alive'
               /\ UNCHANGED <<telnyxWs, openaiWs, streamId, openaiReady>>
      ]_vars

\* C29: a media frame that parses but has no media object, or no payload in
\* it, is dropped: no send call is made on any voice-model connection,
\* nothing is sent, no exception escapes and the session stays as it was.
C29_PayloadlessMediaDropped ==
    [][\A s \in Sessions :
        (ev'.k = "telnyx.message" /\ ev'.s = s /\ ev'.f.k = "media"
            /\ ev'.f.p.t \in {"none", "nomedia"})
            => /\ alive'
               /\ triedOpenai' = 0
               /\ UNCHANGED <<telnyxWs, openaiWs, streamId, openaiReady, toOpenai, toTelnyx>>
      ]_vars

\* C30: an operator request issues a streaming-activation request only when
\* its call creation succeeded and returned the call, and then for that
\* call's identifier alone; when the creation fails, returns no call data or
\* throws, no streaming-activation request is issued.
C30_CallActivatesOnlyCreatedCall ==
    [][ncalls' # ncalls
        => /\ cev'.create # "ok" => activations' = activations
           /\ activations' # activations
                => /\ created'[cev'.cid]
                   /\ activations' = [activations EXCEPT ![cev'.cid] = @ + 1]
      ]_vars

C30_Witness ==
    /\ variant = "server_a"
    /\ cev.hasTo /\ cev.create \in {"nodata", "fail", "throw"}
    /\ creations = 1 /\ callResp.ok = "false"
    /\ \A c \in 0..MaxCallId : activations[c] = 0

====
